---- MODULE Spec2Model ----
(***************************************************************************)
(* Model of the company matching scripts compare_companies.py (naive       *)
(* pairwise matcher), compare_companies_optimized.py (indexed matcher) and *)
(* compare_companies_smart.py (keyword-pruned similarity matcher).         *)
(*                                                                         *)
(* A Python str is modelled as a sequence of characters; a character is a  *)
(* short string.  Latin characters stand for themselves, an Arabic letter  *)
(* is written by its name ("feh", "reh", ...).  pandas' missing value is   *)
(* NaN, Python's None is None.                                             *)
(***************************************************************************)
EXTENDS Integers, Sequences, FiniteSets, TLC

VARIABLES
    script,                  \* which program runs
    pc,                      \* its position
    input, out1, out2,       \* argument and results of a function applied on its own
    reference,               \* the reference (CSV) rows read so far
    queries,                 \* the query (Excel) rows processed so far
    all_csv_companies,       \* compare_companies.py
    csv_companies_by_name,   \* compare_companies_optimized.py
    csv_companies_by_phone,  \* compare_companies_optimized.py
    csv_companies,           \* compare_companies_smart.py
    keyword_index,           \* compare_companies_smart.py
    locals,                  \* compare_companies_smart.py: locals of the query loop
    matches                  \* the output of the running matcher

functionVars == <<input, out1, out2>>
indexVars == <<all_csv_companies, csv_companies_by_name, csv_companies_by_phone,
               csv_companies, keyword_index>>
matcherVars == <<reference, queries, indexVars, locals, matches>>
vars == <<script, pc, functionVars, matcherVars>>

\* pandas' missing value, Python's None, and "not computed yet"; each is a
\* one-element sequence whose element is no character, so that it can be
\* compared with a str
NaN == <<"NaN">>
None == <<"None">>
Unset == <<"Unset">>

(***************************************************************************)
(* Characters                                                              *)
(***************************************************************************)
Whitespace == {" ", "\t", "\n"}
Digits == {"0", "1", "2", "3", "4", "5", "6", "7", "8", "9"}
LowerLetters == <<"a", "b", "c", "d", "e", "f", "g", "h", "i", "j", "k", "l", "m",
                  "n", "o", "p", "q", "r", "s", "t", "u", "v", "w", "x", "y", "z">>
UpperLetters == <<"A", "B", "C", "D", "E", "F", "G", "H", "I", "J", "K", "L", "M",
                  "N", "O", "P", "Q", "R", "S", "T", "U", "V", "W", "X", "Y", "Z">>
ArabicLetters == {"alef", "lam", "meem", "hah", "dal", "waw", "teh_marbuta", "sheen",
                  "reh", "kaf", "sad", "noon", "ain", "feh", "teh", "jeem", "yeh"}
Range(f) == {f[i] : i \in DOMAIN f}
\* the characters the regex class \w matches
WordChars == Range(LowerLetters) \cup Range(UpperLetters) \cup Digits \cup {"_"}
             \cup ArabicLetters

\* str.upper() on one character
UpperChar(c) ==
    IF \E i \in DOMAIN LowerLetters : LowerLetters[i] = c
    THEN UpperLetters[CHOOSE i \in DOMAIN LowerLetters : LowerLetters[i] = c]
    ELSE c
\* str.upper()
Upper(s) == [i \in DOMAIN s |-> UpperChar(s[i])]

(***************************************************************************)
(* String helpers: str.strip(), re.sub of a character class, prefix test   *)
(***************************************************************************)
DropFirst(s, n) == SubSeq(s, n + 1, Len(s))
StartsWith(s, p) == Len(p) <= Len(s) /\ SubSeq(s, 1, Len(p)) = p

RECURSIVE LStrip(_)
LStrip(s) == IF s # <<>> /\ Head(s) \in Whitespace THEN LStrip(Tail(s)) ELSE s
RECURSIVE RStrip(_)
RStrip(s) == IF s # <<>> /\ s[Len(s)] \in Whitespace
             THEN RStrip(SubSeq(s, 1, Len(s) - 1)) ELSE s
Strip(s) == RStrip(LStrip(s))

\* re.sub(r'[...]', '', s): every character of the class is deleted
RemoveChars(s, class) == SelectSeq(s, LAMBDA c : c \notin class)

RECURSIVE LeadingCount(_, _)
LeadingCount(s, c) == IF s # <<>> /\ Head(s) = c THEN 1 + LeadingCount(Tail(s), c) ELSE 0

(***************************************************************************)
(* normalize_phone                                                         *)
(***************************************************************************)
MinPhoneLen == 7
PhoneSeparators == Whitespace \cup {"-", "(", ")"}

\* re.sub(r'^(\+966|966|0+)', '', s): the first alternative that matches at
\* the start of the string is deleted, once
StripPhonePrefix(s) ==
    IF StartsWith(s, <<"+", "9", "6", "6">>) THEN DropFirst(s, 4)
    ELSE IF StartsWith(s, <<"9", "6", "6">>) THEN DropFirst(s, 3)
    ELSE DropFirst(s, LeadingCount(s, "0"))

AcceptPhone(s) == IF s # <<>> /\ Len(s) >= MinPhoneLen THEN s ELSE None

normalize_phone(phone) ==
    IF phone = NaN THEN None
    ELSE AcceptPhone(StripPhonePrefix(RemoveChars(Strip(phone), PhoneSeparators)))

(***************************************************************************)
(* clean_company_name / normalize_company_name / get_name_keywords         *)
(***************************************************************************)
\* the alternatives of r'\b(LTD|LIMITED|LLC|INC|CORP|CO|COMPANY|EST|ESTABLISHMENT)\b'
LegalSuffixTokens ==
    { <<"L", "T", "D">>,
      <<"L", "I", "M", "I", "T", "E", "D">>,
      <<"L", "L", "C">>,
      <<"I", "N", "C">>,
      <<"C", "O", "R", "P">>,
      <<"C", "O">>,
      <<"C", "O", "M", "P", "A", "N", "Y">>,
      <<"E", "S", "T">>,
      <<"E", "S", "T", "A", "B", "L", "I", "S", "H", "M", "E", "N", "T">> }

\* the alternatives of the Arabic corporate-suffix pattern, in pattern order
CorporateSuffixes ==
    << <<"sheen", "reh", "kaf", "teh_marbuta">>,
       <<"meem", "sad", "noon", "ain">>,
       <<"feh", "reh", "ain">>,
       <<"alef", "lam", "meem", "hah", "dal", "waw", "dal", "teh_marbuta">>,
       <<"lam", "lam", "sad", "noon", "alef", "ain", "teh_marbuta">>,
       <<"lam", "lam", "teh", "jeem", "alef", "reh", "teh_marbuta">>,
       <<"alef", "lam", "teh", "jeem", "alef", "reh", "yeh", "teh_marbuta">> >>

\* position of the first occurrence of c in s, 0 if there is none
RECURSIVE IndexOf(_, _)
IndexOf(s, c) ==
    IF s = <<>> THEN 0
    ELSE IF Head(s) = c THEN 1
    ELSE LET r == IndexOf(Tail(s), c) IN IF r = 0 THEN 0 ELSE r + 1

\* re.sub(r'\([^)]*\)', '', s) and re.sub(r'\[[^\]]*\]', '', s): scanning from the
\* left, an opening character that has a closing character after it is deleted
\* together with everything up to the first such closing character
RECURSIVE RemoveDelimited(_, _, _)
RemoveDelimited(s, open, close) ==
    IF s = <<>> THEN <<>>
    ELSE IF Head(s) = open /\ IndexOf(Tail(s), close) > 0
         THEN RemoveDelimited(DropFirst(s, 1 + IndexOf(Tail(s), close)), open, close)
         ELSE <<Head(s)>> \o RemoveDelimited(Tail(s), open, close)

\* length of the run of \w characters s starts with
RECURSIVE WordRunLen(_)
WordRunLen(s) == IF s # <<>> /\ Head(s) \in WordChars THEN 1 + WordRunLen(Tail(s)) ELSE 0

\* re.sub(r'\b(LTD|...)\b', '', s, flags=re.IGNORECASE): a maximal run of \w
\* characters is deleted when it is one of the tokens, whatever its case
RECURSIVE RemoveLegalSuffixes(_)
RemoveLegalSuffixes(s) ==
    IF s = <<>> THEN <<>>
    ELSE IF Head(s) \in WordChars
         THEN LET n == WordRunLen(s)
                  w == SubSeq(s, 1, n)
              IN  (IF Upper(w) \in LegalSuffixTokens THEN <<>> ELSE w)
                  \o RemoveLegalSuffixes(DropFirst(s, n))
         ELSE <<Head(s)>> \o RemoveLegalSuffixes(Tail(s))

\* length of the first alternative (from index i on) that s starts with, 0 if none
RECURSIVE MatchAlternative(_, _, _)
MatchAlternative(s, alts, i) ==
    IF i > Len(alts) THEN 0
    ELSE IF StartsWith(s, alts[i]) THEN Len(alts[i])
    ELSE MatchAlternative(s, alts, i + 1)

\* re.sub(r'(alt1|alt2|...)', '', s): one left-to-right pass; the text after a
\* deleted match is scanned on, the joined result is not scanned again
RECURSIVE RemoveAlternatives(_, _)
RemoveAlternatives(s, alts) ==
    IF s = <<>> THEN <<>>
    ELSE LET n == MatchAlternative(s, alts, 1)
         IN  IF n > 0 THEN RemoveAlternatives(DropFirst(s, n), alts)
             ELSE <<Head(s)>> \o RemoveAlternatives(Tail(s), alts)

\* re.sub(r'\s+', ' ', s)
RECURSIVE CollapseWhitespace(_)
CollapseWhitespace(s) ==
    IF s = <<>> THEN <<>>
    ELSE IF Head(s) \in Whitespace
         THEN <<" ">> \o CollapseWhitespace(LStrip(s))
         ELSE <<Head(s)>> \o CollapseWhitespace(Tail(s))

OrNone(s) == IF s # <<>> THEN s ELSE None

clean_company_name(name) ==
    IF name = NaN THEN None
    ELSE LET s1 == RemoveDelimited(Strip(name), "(", ")")
             s2 == RemoveDelimited(s1, "[", "]")
             s3 == RemoveLegalSuffixes(s2)
             s4 == RemoveAlternatives(s3, CorporateSuffixes)
             s5 == Strip(CollapseWhitespace(s4))
         IN  IF s5 # <<>> THEN Upper(s5) ELSE None

normalize_company_name(name) ==
    IF name = NaN THEN None
    ELSE OrNone(Strip(RemoveAlternatives(Strip(name), CorporateSuffixes)))

\* re.findall(r'\b\w{3,}\b', s): the maximal runs of \w characters of length >= 3
MinKeywordLen == 3
RECURSIVE FindWords(_)
FindWords(s) ==
    IF s = <<>> THEN {}
    ELSE IF Head(s) \in WordChars
         THEN LET n == WordRunLen(s)
              IN  (IF n >= MinKeywordLen THEN {SubSeq(s, 1, n)} ELSE {})
                  \cup FindWords(DropFirst(s, n))
         ELSE FindWords(Tail(s))

get_name_keywords(name) ==
    IF name = None \/ name = <<>> THEN {} ELSE FindWords(Upper(name))

(***************************************************************************)
(* difflib.SequenceMatcher(None, a, b).ratio() and similarity_score        *)
(* Positions are Python's: a[i] is the model's a[i + 1], ranges are        *)
(* half-open.  No junk; the autojunk heuristic needs len(b) >= 200.        *)
(* A score is the fraction <<numerator, denominator>>.                     *)
(***************************************************************************)
Min(x, y) == IF x <= y THEN x ELSE y
Max(x, y) == IF x >= y THEN x ELSE y

\* the length of the longest k with a[i:i+k] == b[j:j+k] inside a[:ahi], b[:bhi]
RECURSIVE RunLen(_, _, _, _, _, _)
RunLen(a, b, i, j, ahi, bhi) ==
    IF i < ahi /\ j < bhi /\ a[i + 1] = b[j + 1]
    THEN 1 + RunLen(a, b, i + 1, j + 1, ahi, bhi) ELSE 0

\* for every pair of start positions inside a[alo:ahi], b[blo:bhi] that match,
\* the longest matching block <<i, j, k>> that starts there
MatchingBlocks(a, b, alo, ahi, blo, bhi) ==
    { t \in { <<p[1], p[2], RunLen(a, b, p[1], p[2], ahi, bhi)>> :
                p \in (alo..(ahi - 1)) \X (blo..(bhi - 1)) } : t[3] > 0 }

\* find_longest_match: the longest block; of those the one that starts earliest
\* in a; of those the one that starts earliest in b; <<alo, blo, 0>> if none
find_longest_match(a, b, alo, ahi, blo, bhi) ==
    LET blocks == MatchingBlocks(a, b, alo, ahi, blo, bhi)
    IN  IF blocks = {} THEN <<alo, blo, 0>>
        ELSE CHOOSE t \in blocks : \A u \in blocks :
                \/ t[3] > u[3]
                \/ t[3] = u[3] /\ t[1] < u[1]
                \/ t[3] = u[3] /\ t[1] = u[1] /\ t[2] <= u[2]

\* get_matching_blocks, summed: the longest block, then the same to its left
\* and to its right
RECURSIVE MatchedChars(_, _, _, _, _, _)
MatchedChars(a, b, alo, ahi, blo, bhi) ==
    LET m == find_longest_match(a, b, alo, ahi, blo, bhi)
        i == m[1]
        j == m[2]
        k == m[3]
    IN  IF k = 0 THEN 0
        ELSE k
             + (IF alo < i /\ blo < j THEN MatchedChars(a, b, alo, i, blo, j) ELSE 0)
             + (IF i + k < ahi /\ j + k < bhi
                THEN MatchedChars(a, b, i + k, ahi, j + k, bhi) ELSE 0)

\* SequenceMatcher(None, a, b).ratio() = 2.0 * matches / (len(a) + len(b))
ratio(a, b) ==
    IF Len(a) + Len(b) = 0 THEN <<1, 1>>
    ELSE <<2 * MatchedChars(a, b, 0, Len(a), 0, Len(b)), Len(a) + Len(b)>>

Zero == <<0, 1>>
FracLeq(x, y) == x[1] * y[2] <= y[1] * x[2]
FracEq(x, y) == x[1] * y[2] = y[1] * x[2]
FracMax(x, y) == IF FracLeq(y, x) THEN x ELSE y

IsEmpty(s) == s = None \/ s = <<>>

\* similar() of compare_companies.py and compare_companies_optimized.py
similar(a, b) == IF IsEmpty(a) \/ IsEmpty(b) THEN Zero ELSE ratio(a, b)

keyword_sim(keywords1, keywords2) ==
    IF keywords1 # {} /\ keywords2 # {}
    THEN <<Cardinality(keywords1 \cap keywords2),
           Max(Cardinality(keywords1), Cardinality(keywords2))>>
    ELSE Zero

similarity_score(name1, name2) ==
    IF IsEmpty(name1) \/ IsEmpty(name2) THEN Zero
    ELSE FracMax(ratio(name1, name2),
                 keyword_sim(get_name_keywords(name1), get_name_keywords(name2)))

(***************************************************************************)
(* Inputs of the normalizers: texts put together from a few pieces         *)
(***************************************************************************)
RECURSIVE Flatten(_)
Flatten(ss) == IF ss = <<>> THEN <<>> ELSE Head(ss) \o Flatten(Tail(ss))
SeqsUpTo(S, n) == UNION {[1..k -> S] : k \in 0..n}

MaxPhonePieces == 2
PhonePieces == { <<"+", "9", "6", "6">>, <<"9", "6", "6">>, <<"0">>, <<" ">>,
                 <<"-">>, <<"(">>, <<")">>, <<"+">> }
PhoneBodies == { <<"5", "0", "1", "2", "3", "4", "5", "6", "7">>,
                 <<"5", "0", "1", "2", "3", "4">>,
                 <<"1", "2", "3", " ", "4", "5", "-", "6", "7">>,
                 <<"e", "x", "t", "1", "2", "3", "4">>,
                 <<>> }
PhoneInputs == {NaN} \cup
    { Flatten(ps) \o b : ps \in SeqsUpTo(PhonePieces, MaxPhonePieces), b \in PhoneBodies }

MaxNamePieces == 3
NamePieces == { <<"C">>, <<"O">>, <<"c", "o">>, <<"A", "c", "m", "e">>,
                <<"feh">>, <<"reh", "ain">>, <<"feh", "reh", "ain">>,
                <<" ">>, <<"(">>, <<")">>, <<"[">>, <<"]">> }
NameInputs == {NaN} \cup { Flatten(ps) : ps \in SeqsUpTo(NamePieces, MaxNamePieces) }

(***************************************************************************)
(* The normalizers applied once and then to their own result               *)
(***************************************************************************)
\* excel_keywords and candidates as the iteration keywords_at left them, and
\* best_matches (its entries, as a set) as the iteration best_at left it; a
\* "continue" leaves what it has not reached as the iteration before left it
NoLocals == [keywords_at |-> 0, excel_keywords |-> {}, candidates |-> {},
             best_at |-> 0, best_matches |-> {}]

NoMatcher ==
    /\ reference = <<>>
    /\ queries = <<>>
    /\ all_csv_companies = <<>>
    /\ csv_companies_by_name = <<>>
    /\ csv_companies_by_phone = <<>>
    /\ csv_companies = <<>>
    /\ keyword_index = <<>>
    /\ locals = NoLocals
    /\ matches = <<>>

InitFunction ==
    /\ script = "function"
    /\ pc = "start"
    /\ out1 = Unset
    /\ out2 = Unset
    /\ NoMatcher

InitPhone == InitFunction /\ input \in PhoneInputs

PhoneOnce ==
    /\ pc = "start"
    /\ out1' = normalize_phone(input)
    /\ pc' = "phone1"
    /\ UNCHANGED <<script, input, out2, matcherVars>>

PhoneTwice ==
    /\ pc = "phone1"
    /\ out1 # None
    /\ out2' = normalize_phone(out1)
    /\ pc' = "phone2"
    /\ UNCHANGED <<script, input, out1, matcherVars>>

NextPhone == PhoneOnce \/ PhoneTwice
SpecPhone == InitPhone /\ [][NextPhone]_vars

InitName == InitFunction /\ input \in NameInputs

CleanOnce ==
    /\ pc = "start"
    /\ out1' = clean_company_name(input)
    /\ pc' = "clean1"
    /\ UNCHANGED <<script, input, out2, matcherVars>>

CleanTwice ==
    /\ pc = "clean1"
    /\ out1 # None
    /\ out2' = clean_company_name(out1)
    /\ pc' = "clean2"
    /\ UNCHANGED <<script, input, out1, matcherVars>>

NormalizeOnce ==
    /\ pc = "start"
    /\ out1' = normalize_company_name(input)
    /\ pc' = "norm1"
    /\ UNCHANGED <<script, input, out2, matcherVars>>

NormalizeTwice ==
    /\ pc = "norm1"
    /\ out1 # None
    /\ out2' = normalize_company_name(out1)
    /\ pc' = "norm2"
    /\ UNCHANGED <<script, input, out1, matcherVars>>

NextName == CleanOnce \/ CleanTwice \/ NormalizeOnce \/ NormalizeTwice
SpecName == InitName /\ [][NextName]_vars

(***************************************************************************)
(* similarity_score applied to a pair of names in both argument orders     *)
(***************************************************************************)
MaxScoreLen == 3
ScoreChars == {"a", "b", "c"}
ScoreNames == {None} \cup SeqsUpTo(ScoreChars, MaxScoreLen)

InitScore == InitFunction /\ input \in ScoreNames \X ScoreNames

ScoreForward ==
    /\ pc = "start"
    /\ out1' = similarity_score(input[1], input[2])
    /\ pc' = "score1"
    /\ UNCHANGED <<script, input, out2, matcherVars>>

ScoreBackward ==
    /\ pc = "score1"
    /\ out2' = similarity_score(input[2], input[1])
    /\ pc' = "score2"
    /\ UNCHANGED <<script, input, out1, matcherVars>>

NextScore == ScoreForward \/ ScoreBackward
SpecScore == InitScore /\ [][NextScore]_vars

(***************************************************************************)
(* The matchers: common parts                                              *)
(* A reference row is read from one of three CSV frames, in this order; a  *)
(* cell is a text or NaN (pandas reads an empty cell and the text "nan" as *)
(* NaN).  The loops over the frames are one action per row read.           *)
(***************************************************************************)
Frames == <<"companysa", "eyeofriyadh", "findsaudi">>
MaxRefRows == 2
MaxQueries == 1

nan == <<"n", "a", "n">>
\* str(x) of a cell
Str(x) == IF x = NaN THEN nan ELSE x

NameCells == { NaN,
               <<"a", "b">>,
               <<" ", "a", "b">>,
               <<"a", "c">>,
               <<" ", "feh", "reh", "ain", " ", "a", "b">> }
PhoneCells == { NaN, <<"0", "5", "5", "1", "2", "3", "4", "5">> }
Rows == [name : NameCells, phone : PhoneCells]

\* round(x, digits) of a score, in units of 10^-digits; a tie goes to the even
\* neighbour
RoundTo(x, unit) ==
    LET q == (unit * x[1]) \div x[2]
        r == (unit * x[1]) % x[2]
    IN  IF 2 * r < x[2] THEN q
        ELSE IF 2 * r > x[2] THEN q + 1
        ELSE IF q % 2 = 0 THEN q ELSE q + 1

\* the frame loop is exhausted: the next frame's loop, then the query loop
EndOfFrame ==
    /\ pc \in Range(Frames)
    /\ pc' = IF pc = "companysa" THEN "eyeofriyadh"
             ELSE IF pc = "eyeofriyadh" THEN "findsaudi"
             ELSE IF script = "compare_companies_smart" THEN "keyword_index"
             ELSE "query"
    /\ UNCHANGED <<script, functionVars, matcherVars>>

InitMatcher ==
    /\ pc = "companysa"
    /\ input = Unset
    /\ out1 = Unset
    /\ out2 = Unset
    /\ NoMatcher

(***************************************************************************)
(* compare_companies.py: the naive pairwise matcher                        *)
(***************************************************************************)
similarity_threshold == <<6, 10>>

\* lines 87-124: a row with a truthy name (NaN is truthy) is appended
ReadRowNaive ==
    /\ script = "compare_companies"
    /\ pc \in Range(Frames)
    /\ Len(reference) < MaxRefRows
    /\ \E row \in Rows :
        /\ reference' = Append(reference, [source |-> pc, name |-> row.name,
                                           phone |-> row.phone])
        /\ all_csv_companies' =
             IF row.name # <<>>
             THEN Append(all_csv_companies,
                         [source |-> pc,
                          company_name |-> row.name,
                          normalized_name |-> normalize_company_name(row.name),
                          phone |-> normalize_phone(row.phone)])
             ELSE all_csv_companies
    /\ UNCHANGED <<script, pc, functionVars, queries, csv_companies_by_name,
                   csv_companies_by_phone, csv_companies, keyword_index, locals, matches>>

\* lines 143-172: one reference record against one query; <<>> or <<match>>
ComparePair(excel_idx, excel_company, excel_company_normalized, excel_phone, csv_company) ==
    LET csv_name == csv_company.company_name
        csv_normalized == csv_company.normalized_name
        csv_phone == csv_company.phone
        exact_match == excel_company = csv_name
        similarity == similar(excel_company, csv_name)
        normalized_similarity ==
            IF excel_company_normalized # None /\ csv_normalized # None
            THEN similar(excel_company_normalized, csv_normalized) ELSE Zero
        max_similarity == FracMax(similarity, normalized_similarity)
        phone_match == excel_phone # None /\ csv_phone # None /\ excel_phone = csv_phone
    IN  IF exact_match \/ FracLeq(similarity_threshold, max_similarity) \/ phone_match
        THEN << [excel_idx |-> excel_idx,
                 excel_name |-> excel_company,
                 excel_phone |-> excel_phone,
                 source |-> csv_company.source,
                 csv_name |-> csv_name,
                 csv_phone |-> csv_phone,
                 similarity |-> RoundTo(max_similarity, 100),
                 phone_match |-> phone_match,
                 kind |-> IF exact_match THEN "EXACT"
                          ELSE IF phone_match THEN "PHONE" ELSE "SIMILAR"] >>
        ELSE <<>>

\* SequenceMatcher raises TypeError on a NaN reference name: the scan of a
\* query stops at the first such record
RECURSIVE FirstNaNName(_, _)
FirstNaNName(companies, i) ==
    IF i > Len(companies) THEN 0
    ELSE IF companies[i].company_name = NaN THEN i
    ELSE FirstNaNName(companies, i + 1)

\* the matches of the records 1..n for one query, in record order
RECURSIVE ScanCompanies(_, _, _, _, _, _)
ScanCompanies(excel_idx, excel_company, excel_company_normalized, excel_phone, companies, n) ==
    IF n = 0 THEN <<>>
    ELSE ScanCompanies(excel_idx, excel_company, excel_company_normalized, excel_phone,
                       companies, n - 1)
         \o ComparePair(excel_idx, excel_company, excel_company_normalized, excel_phone,
                        companies[n])

\* lines 133-172: one iteration of the query loop
QueryNaive ==
    /\ script = "compare_companies"
    /\ pc = "query"
    /\ Len(queries) < MaxQueries
    /\ \E row \in Rows :
        LET excel_idx == Len(queries) + 1
            excel_company == Strip(Str(row.name))
            excel_company_normalized == normalize_company_name(excel_company)
            excel_phone == normalize_phone(row.phone)
            stop == FirstNaNName(all_csv_companies, 1)
            n == IF stop = 0 THEN Len(all_csv_companies) ELSE stop - 1
        IN  /\ queries' = Append(queries, row)
            /\ IF excel_company = <<>> \/ excel_company = nan
               THEN UNCHANGED <<pc, matches>>
               ELSE /\ matches' = matches \o
                          ScanCompanies(excel_idx, excel_company, excel_company_normalized,
                                        excel_phone, all_csv_companies, n)
                    /\ pc' = IF stop = 0 THEN "query" ELSE "raised"
    /\ UNCHANGED <<script, functionVars, reference, indexVars, locals>>

InitNaive == script = "compare_companies" /\ InitMatcher
NextNaive == ReadRowNaive \/ QueryNaive

(***************************************************************************)
(* compare_companies_optimized.py: the indexed matcher                     *)
(* A defaultdict(list) is a function from its keys to lists.               *)
(***************************************************************************)
\* d[k].append(v)
DictAppend(d, k, v) ==
    IF k \in DOMAIN d THEN [d EXCEPT ![k] = Append(@, v)] ELSE d @@ (k :> <<v>>)

\* d[k] read: a missing key is created with an empty list
GetItem(d, k) ==
    IF k \in DOMAIN d THEN [dict |-> d, value |-> d[k]]
    ELSE [dict |-> d @@ (k :> <<>>), value |-> <<>>]

LookupUnguarded(d, k, present) == GetItem(d, k)
\* "if present and k in d: for ... in d[k]": the list to loop over, and the dict
\* after the access
Lookup(d, k, present) ==
    IF present /\ k \in DOMAIN d THEN GetItem(d, k) ELSE [dict |-> d, value |-> <<>>]

\* lines 62-83
add_to_index(by_name, by_phone, source, company_name, phone) ==
    IF company_name = <<>> \/ Str(company_name) = nan
    THEN [by_name |-> by_name, by_phone |-> by_phone]
    ELSE LET company_data == [source |-> source,
                              company_name |-> company_name,
                              normalized_name |-> normalize_company_name(company_name),
                              phone |-> phone]
             normalized == normalize_company_name(company_name)
             d1 == DictAppend(by_name, company_name, company_data)
             d2 == IF normalized # None THEN DictAppend(d1, normalized, company_data) ELSE d1
         IN  [by_name |-> d2,
              by_phone |-> IF phone # None THEN DictAppend(by_phone, phone, company_data)
                           ELSE by_phone]

\* lines 86-101
ReadRowIndexed ==
    /\ script = "compare_companies_optimized"
    /\ pc \in Range(Frames)
    /\ Len(reference) < MaxRefRows
    /\ \E row \in Rows :
        LET r == add_to_index(csv_companies_by_name, csv_companies_by_phone, pc,
                              row.name, normalize_phone(row.phone))
        IN  /\ reference' = Append(reference, [source |-> pc, name |-> row.name,
                                               phone |-> row.phone])
            /\ csv_companies_by_name' = r.by_name
            /\ csv_companies_by_phone' = r.by_phone
    /\ UNCHANGED <<script, pc, functionVars, queries, all_csv_companies, csv_companies,
                   keyword_index, locals, matches>>

\* lines 129-141 and 145-157: the hits i..Len(hits) that are not in matched yet
\* are emitted; [matched, out]
RECURSIVE EmitHits(_, _, _, _, _, _, _)
EmitHits(hits, i, matched, excel_idx, excel_company, score, kind) ==
    IF i > Len(hits) THEN [matched |-> matched, out |-> <<>>]
    ELSE LET csv_data == hits[i]
             key == <<csv_data.source, csv_data.company_name>>
             rest == EmitHits(hits, i + 1, matched \cup {key}, excel_idx, excel_company,
                              score, kind)
         IN  IF key \notin matched
             THEN [matched |-> rest.matched,
                   out |-> << [excel_idx |-> excel_idx,
                               excel_name |-> excel_company,
                               source |-> csv_data.source,
                               csv_name |-> csv_data.company_name,
                               csv_phone |-> csv_data.phone,
                               similarity |-> score,
                               kind |-> kind] >> \o rest.out]
             ELSE rest

\* lines 113-157: one iteration of the query loop
QueryIndexed ==
    /\ script = "compare_companies_optimized"
    /\ pc = "query"
    /\ Len(queries) < MaxQueries
    /\ \E row \in [name : NameCells] :
        LET excel_idx == Len(queries) + 1
            excel_company == Strip(Str(row.name))
            excel_company_normalized == normalize_company_name(excel_company)
            exact == Lookup(csv_companies_by_name, excel_company, TRUE)
            stage1 == EmitHits(exact.value, 1, {}, excel_idx, excel_company,
                               <<1, 1>>, "EXACT")
            norm == Lookup(exact.dict, excel_company_normalized,
                           excel_company_normalized # None)
            stage2 == EmitHits(norm.value, 1, stage1.matched, excel_idx, excel_company,
                               <<95, 100>>, "NORMALIZED")
        IN  /\ queries' = Append(queries, row)
            /\ IF excel_company = <<>> \/ excel_company = nan
               THEN UNCHANGED <<csv_companies_by_name, matches>>
               ELSE /\ csv_companies_by_name' = norm.dict
                    /\ matches' = matches \o stage1.out \o stage2.out
    /\ UNCHANGED <<script, pc, functionVars, reference, all_csv_companies,
                   csv_companies_by_phone, csv_companies, keyword_index, locals>>

InitIndexed == script = "compare_companies_optimized" /\ InitMatcher
NextIndexed == ReadRowIndexed \/ QueryIndexed

(***************************************************************************)
(* compare_companies_smart.py: the keyword-pruned similarity matcher       *)
(* csv_idx is the position in csv_companies, counted from 1.               *)
(***************************************************************************)
threshold == <<1, 2>>
TopK == 3
MaxSmartRows == 4

SmartRefNameCells == { NaN,
                       <<"a", "b", "c", " ", "d", "e", "f">>,
                       <<"a", "b", "c", " ", "C", "o">> }
SmartQueryNameCells == { NaN,
                         <<"a", "b", "c", " ", "d", "e", "f">>,
                         <<"a", "b">> }
SmartRows == [name : SmartRefNameCells,
              phone : {<<"0", "5", "5", "1", "2", "3", "4", "5">>}]

\* lines 90-123
ReadRowSmart ==
    /\ script = "compare_companies_smart"
    /\ pc \in Range(Frames)
    /\ Len(csv_companies) < MaxSmartRows
    /\ \E row \in SmartRows :
        /\ csv_companies' =
             IF row.name # <<>> /\ Str(row.name) # nan
             THEN Append(csv_companies,
                         [source |-> pc,
                          original_name |-> row.name,
                          cleaned_name |-> clean_company_name(row.name),
                          phone |-> normalize_phone(row.phone),
                          keywords |-> get_name_keywords(clean_company_name(row.name))])
             ELSE csv_companies
    /\ UNCHANGED <<script, pc, functionVars, reference, queries, all_csv_companies,
                   csv_companies_by_name, csv_companies_by_phone, keyword_index, locals,
                   matches>>

\* lines 130-131: keyword_index[keyword].append(idx) for every keyword of one company
RECURSIVE IndexKeywords(_, _, _)
IndexKeywords(d, keywords, idx) ==
    IF keywords = {} THEN d
    ELSE LET keyword == CHOOSE k \in keywords : TRUE
         IN  IndexKeywords(DictAppend(d, keyword, idx), keywords \ {keyword}, idx)

RECURSIVE IndexCompanies(_, _, _)
IndexCompanies(d, companies, idx) ==
    IF idx > Len(companies) THEN d
    ELSE IndexCompanies(IndexKeywords(d, companies[idx].keywords, idx), companies, idx + 1)

\* lines 128-131
BuildKeywordIndex ==
    /\ script = "compare_companies_smart"
    /\ pc = "keyword_index"
    /\ keyword_index' = IndexCompanies(<<>>, csv_companies, 1)
    /\ pc' = "query"
    /\ UNCHANGED <<script, functionVars, reference, queries, all_csv_companies,
                   csv_companies_by_name, csv_companies_by_phone, csv_companies, locals,
                   matches>>

AllCandidates(d, keywords, n) == [dict |-> d, candidates |-> 1..n]
\* lines 155-158: the union of the postings of the query's keywords; [dict, candidates]
RECURSIVE GatherCandidates(_, _, _)
GatherCandidates(d, keywords, n) ==
    IF keywords = {} THEN [dict |-> d, candidates |-> {}]
    ELSE LET keyword == CHOOSE k \in keywords : TRUE
             got == Lookup(d, keyword, TRUE)
             rest == GatherCandidates(got.dict, keywords \ {keyword}, n)
         IN  [dict |-> rest.dict, candidates |-> Range(got.value) \cup rest.candidates]

\* the orders a set can be iterated in
RECURSIVE Orders(_)
Orders(S) ==
    IF S = {} THEN {<<>>}
    ELSE UNION { { <<x>> \o o : o \in Orders(S \ {x}) } : x \in S }

\* lines 166-180: the entries of the candidates that have a cleaned name and
\* reach the threshold
Accepted(candidates, excel_cleaned, companies) ==
    { m \in { [csv_idx |-> i,
               similarity |-> similarity_score(excel_cleaned, companies[i].cleaned_name)] :
              i \in { c \in candidates : companies[c].cleaned_name # None } } :
        FracLeq(threshold, m.similarity) }

\* list.sort(key=similarity, reverse=True): stable, so an entry goes behind the
\* entries that are at least as similar
InsertDescending(sorted, m) ==
    LET ahead == Cardinality({ i \in DOMAIN sorted : FracLeq(m.similarity, sorted[i].similarity) })
    IN  SubSeq(sorted, 1, ahead) \o <<m>> \o SubSeq(sorted, ahead + 1, Len(sorted))

RECURSIVE SortDescendingTo(_, _)
SortDescendingTo(best_matches, n) ==
    IF n = 0 THEN <<>>
    ELSE InsertDescending(SortDescendingTo(best_matches, n - 1), best_matches[n])

KeepAll(best_matches) == best_matches
\* lines 185-187: best_matches.sort(...); best_matches[:3]
TopMatches(best_matches) ==
    SubSeq(SortDescendingTo(best_matches, Len(best_matches)), 1, Min(TopK, Len(best_matches)))

\* lines 188-197
SmartMatch(excel_idx, excel_name, excel_cleaned, companies, m) ==
    [excel_idx |-> excel_idx,
     excel_name |-> excel_name,
     excel_cleaned |-> excel_cleaned,
     csv_idx |-> m.csv_idx,
     source |-> companies[m.csv_idx].source,
     csv_name |-> companies[m.csv_idx].original_name,
     csv_cleaned |-> companies[m.csv_idx].cleaned_name,
     csv_phone |-> companies[m.csv_idx].phone,
     score |-> m.similarity,
     similarity |-> RoundTo(m.similarity, 1000)]

\* lines 140-197: one iteration of the query loop
QuerySmart ==
    /\ script = "compare_companies_smart"
    /\ pc = "query"
    /\ Len(queries) < MaxQueries
    /\ \E row \in [name : SmartQueryNameCells] :
       \E excel_name \in {Strip(Str(row.name))} :
       \E excel_cleaned \in {clean_company_name(excel_name)} :
        LET excel_idx == Len(queries) + 1
            excel_keywords == get_name_keywords(excel_cleaned)
        IN  /\ queries' = Append(queries, row)
            /\ IF excel_name = <<>> \/ excel_name = nan \/ excel_cleaned = None
               THEN UNCHANGED <<keyword_index, locals, matches>>
               ELSE \E found \in {GatherCandidates(keyword_index, excel_keywords,
                                                    Len(csv_companies))} :
                    /\ keyword_index' = found.dict
                    /\ IF found.candidates = {}
                       THEN /\ locals' = [locals EXCEPT !.keywords_at = excel_idx,
                                                        !.excel_keywords = excel_keywords,
                                                        !.candidates = {}]
                            /\ UNCHANGED matches
                       ELSE \E accepted \in {Accepted(found.candidates, excel_cleaned,
                                                      csv_companies)} :
                            /\ locals' = [keywords_at |-> excel_idx,
                                          excel_keywords |-> excel_keywords,
                                          candidates |-> found.candidates,
                                          best_at |-> excel_idx,
                                          best_matches |-> accepted]
                            \* best_matches is filled in the order the set candidates
                            \* is iterated in, which the language leaves open
                            /\ \E best_matches \in Orders(accepted) :
                               \E top \in {TopMatches(best_matches)} :
                                 matches' = matches \o
                                     [i \in DOMAIN top |->
                                        SmartMatch(excel_idx, excel_name, excel_cleaned,
                                                   csv_companies, top[i])]
    /\ UNCHANGED <<script, pc, functionVars, reference, all_csv_companies,
                   csv_companies_by_name, csv_companies_by_phone, csv_companies>>

InitSmart == script = "compare_companies_smart" /\ InitMatcher
NextSmart == ReadRowSmart \/ BuildKeywordIndex \/ QuerySmart

(***************************************************************************)
(* Specifications                                                          *)
(***************************************************************************)
\* the naive and the indexed matcher
InitExact == InitNaive \/ InitIndexed
NextExact == EndOfFrame \/ NextNaive \/ NextIndexed
SpecExact == InitExact /\ [][NextExact]_vars

SpecIndexed == InitIndexed /\ [][EndOfFrame \/ NextIndexed]_vars
SpecSmart == InitSmart /\ [][EndOfFrame \/ NextSmart]_vars

\* the matchers that look candidates up in an index
Init == InitIndexed \/ InitSmart
Next == EndOfFrame \/ NextIndexed \/ NextSmart
Spec == Init /\ [][Next]_vars

(***************************************************************************)
(* Claims                                                                  *)
(***************************************************************************)
IsDigits(s) == \A i \in DOMAIN s : s[i] \in Digits

\* C2: normalize_phone is idempotent: whenever normalize_phone(x) is present,
\* normalize_phone(normalize_phone(x)) = normalize_phone(x).
C2_PhoneIdempotent == pc = "phone2" => out2 = out1

\* C4: the result of normalize_phone is either absent or a string of digit
\* characters only, of length >= 7.
C4_PhoneDigitsMinLen ==
    pc \in {"phone1", "phone2"} =>
        out1 = None \/ (IsDigits(out1) /\ Len(out1) >= MinPhoneLen)

\* C3: name normalization is idempotent: for every non-absent name x,
\* clean_company_name(clean_company_name(x)) = clean_company_name(x), and
\* likewise for normalize_company_name.
C3_NameIdempotent == pc \in {"clean2", "norm2"} => out2 = out1

\* C5: score symmetry: similarity_score(a, b) = similarity_score(b, a) for all
\* pairs of names a, b.
C5_ScoreSymmetric == pc = "score2" => FracEq(out1, out2)

(***************************************************************************)
(* Claims about the matchers                                               *)
(***************************************************************************)
Naive == script = "compare_companies"
Indexed == script = "compare_companies_optimized"
Smart == script = "compare_companies_smart"

\* the matches emitted for query q, in output order
MatchesOf(q) == SelectSeq(matches, LAMBDA m : m.excel_idx = q)

\* C1: exact-match completeness: for every query that has been processed, if
\* some reference row's name equals the query's name verbatim, the output holds
\* a match of kind EXACT for that query (naive and indexed matcher).
C1_ExactMatchComplete ==
    (Naive \/ Indexed) /\ pc # "raised" =>
        \A q \in DOMAIN queries :
            (/\ queries[q].name # NaN
             /\ \E r \in DOMAIN reference : reference[r].name = queries[q].name)
            => \E i \in DOMAIN matches :
                  matches[i].excel_idx = q /\ matches[i].kind = "EXACT"

\* the last query ran up to the assignment of best_matches
LastQueryScored == Smart /\ queries # <<>> /\ locals.best_at = Len(queries)
EmittedIdx(q) == { MatchesOf(q)[i].csv_idx : i \in DOMAIN MatchesOf(q) }
\* the entries of best_matches that were not emitted
NotEmitted(q) == { b \in locals.best_matches : b.csv_idx \notin EmittedIdx(q) }

\* C6: top-K cap: when more than 3 candidates reach the threshold for a query,
\* exactly 3 matches are appended for it; when 3 or fewer do, all of them are;
\* and every emitted score is >= the score of every candidate that reached the
\* threshold and was not emitted.
C6_TopKCap ==
    LastQueryScored =>
        LET q == Len(queries)
            emitted == MatchesOf(q)
        IN  /\ Len(emitted) = Min(TopK, Cardinality(locals.best_matches))
            /\ Cardinality(EmittedIdx(q)) = Len(emitted)
            /\ \A i \in DOMAIN emitted :
                 /\ [csv_idx |-> emitted[i].csv_idx, similarity |-> emitted[i].score]
                       \in locals.best_matches
                 /\ \A b \in NotEmitted(q) : FracLeq(b.similarity, emitted[i].score)

\* more than 3 candidates reached the threshold, 3 were emitted, and one that
\* was left out scores strictly less than an emitted one
C6_Witness ==
    /\ LastQueryScored
    /\ Cardinality(locals.best_matches) > TopK
    /\ Len(MatchesOf(Len(queries))) = TopK
    /\ \E b \in NotEmitted(Len(queries)) :
          ~FracLeq(MatchesOf(Len(queries))[TopK].score, b.similarity)

\* C7: keyword pruning: every emitted match pairs a query and a reference record
\* whose keyword sets intersect, so a query that shares no keyword with any
\* reference record contributes no match, whatever its score would be.
C7_KeywordPruning ==
    Smart =>
        \A i \in DOMAIN matches :
            /\ matches[i].excel_idx <= locals.keywords_at
            /\ matches[i].excel_idx = locals.keywords_at =>
                 locals.excel_keywords \cap csv_companies[matches[i].csv_idx].keywords # {}

\* a query was looked up that shares no keyword with any reference record and
\* scores at least the threshold against one of them; it has no match
C7_Witness ==
    /\ Smart
    /\ queries # <<>>
    /\ locals.keywords_at = Len(queries)
    /\ \A c \in DOMAIN csv_companies :
          locals.excel_keywords \cap csv_companies[c].keywords = {}
    /\ \E c \in DOMAIN csv_companies :
          FracLeq(threshold,
                  similarity_score(clean_company_name(Strip(Str(queries[Len(queries)].name))),
                                   csv_companies[c].cleaned_name))
    /\ MatchesOf(Len(queries)) = <<>>

\* C8: per-query deduplication: for each query, no two matches emitted for it
\* have the same (reference source, reference original name) pair (indexed and
\* keyword-pruned matcher).
C8_PerQueryDedup ==
    (Indexed \/ Smart) =>
        \A i, j \in DOMAIN matches :
            (i < j /\ matches[i].excel_idx = matches[j].excel_idx)
            => <<matches[i].source, matches[i].csv_name>>
               # <<matches[j].source, matches[j].csv_name>>

\* C9: the index is read-only after the build: no step of a query loop changes
\* csv_companies_by_name, csv_companies_by_phone, keyword_index or csv_companies.
C9_IndexReadOnly ==
    [][pc = "query" =>
         UNCHANGED <<csv_companies_by_name, csv_companies_by_phone, keyword_index,
                     csv_companies>>]_vars

\* the indexed matcher has looked up a query whose name is no key of the name index
C9_Witness ==
    /\ Indexed
    /\ queries # <<>>
    /\ csv_companies_by_name # <<>>
    /\ Strip(Str(queries[Len(queries)].name)) \notin DOMAIN csv_companies_by_name
    /\ Strip(Str(queries[Len(queries)].name)) # nan

\* C10: tie-breaking: the matches of a query are emitted in descending score
\* order, and of two candidates with the same score the one that comes earlier in
\* the reference input is ranked first and is the one the cap of 3 keeps.
C10_TieBreakByInputOrder ==
    Smart =>
        /\ \A i, j \in DOMAIN matches :
             (i < j /\ matches[i].excel_idx = matches[j].excel_idx)
             => /\ FracLeq(matches[j].score, matches[i].score)
                /\ FracEq(matches[j].score, matches[i].score)
                     => matches[i].csv_idx < matches[j].csv_idx
        /\ LastQueryScored =>
             \A i \in DOMAIN MatchesOf(Len(queries)) : \A b \in NotEmitted(Len(queries)) :
                FracEq(b.similarity, MatchesOf(Len(queries))[i].score)
                => MatchesOf(Len(queries))[i].csv_idx < b.csv_idx

\* C11: EXACT-kind soundness in the indexed matcher: every emitted match of kind
\* EXACT pairs a query whose stripped name equals the reference record's original
\* name; a record reached through its normalized name is never labelled EXACT.
C11_ExactKindSound ==
    Indexed =>
        \A i \in DOMAIN matches :
            matches[i].kind = "EXACT" => matches[i].csv_name = matches[i].excel_name

====
